---- MODULE Spec2Model ----
(***************************************************************************)
(* The Trellis MCP server: a FastMCP tool registry (server.py) in front of *)
(* an HTTP client wrapper (trellis_client.py).                              *)
(*                                                                         *)
(* The server module is imported once: it sets up logging and constructs   *)
(* the module-level TrellisClient from the environment.  Afterwards the    *)
(* host runtime invokes tools; each tool calls one client method, which    *)
(* calls _request, which calls requests.request and classifies the result. *)
(* An invocation is modelled in two steps, split where the code blocks on  *)
(* the network: everything up to and including the requests.request call,  *)
(* and everything from its result to the tool's return or raise.           *)
(*                                                                         *)
(* What an invocation does is recorded as a sequence of events, in program *)
(* order: a logger call or a call of requests.request.                     *)
(***************************************************************************)
EXTENDS Integers, Sequences, FiniteSets, TLC

VARIABLES
    env,     \* the process environment: the three TRELLIS_* settings
    phase,   \* "import" (server.py not yet imported), "serving", "fatal"
    client,  \* server.py's module-level `client`: None or Some(configuration)
    boot,    \* what the import did: its events and the error it died of
    calls,   \* per concurrent invocation of the host runtime: idle or in flight
    last     \* the most recently completed invocation, as its caller saw it

vars == <<env, phase, client, boot, calls, last>>

-----------------------------------------------------------------------------
(* Bounds of the model *)

\* Number of invocations the host runtime may have in flight at once.
NumSlots == 1

\* Length of the longest response body the remote API sends.
MaxBodyLen == 201

(* Program constants *)

\* trellis_client.py:114  e.response.text[:200]
TruncLen == 200

\* trellis_client.py:62  timeout: int = 30
DefaultTimeout == 30

API_VERSION == "2025-03"

BASE_URL == "https://enterprise.training.api.runtrellis.com/v1"

-----------------------------------------------------------------------------
(* Python values *)

\* Optional values: None, or Some(x).
None == <<>>

Some(x) == <<x>>

\* `not v` for a value that is None or a string (os.getenv's result).
FalsyStr(v) == v = None \/ v[1] = ""

\* bool(v) for a value that is None or a list.
TruthyList(v) == v # None /\ Len(v[1]) > 0

\* f"{v}" for a value that is None or a string.
Str(v) == IF v = None THEN "None" ELSE v[1]

\* s[:n]
Slice(s, n) == SubSeq(s, 1, IF Len(s) < n THEN Len(s) ELSE n)

\* dict.update: the keys of `other` are added, its values win.
DictUpdate(d, other) ==
    [k \in DOMAIN d \cup DOMAIN other |-> IF k \in DOMAIN other THEN other[k] ELSE d[k]]

(* Events of a run, in program order *)

\* logger.<level>(msg) on the named logger; msg holds the f-string's fixed
\* text and the values formatted into it.
LogEv(name, level, msg) == [ev |-> "log", logger |-> name, level |-> level, msg |-> msg]

\* requests.request(**call)
HttpEv(call) == [ev |-> "http", call |-> call]

IsHttp(e) == e.ev = "http"

IsLog(e) == e.ev = "log"

\* The indices of the events of `trace` that satisfy Test.
Where(trace, Test(_)) == {i \in DOMAIN trace : Test(trace[i])}

(* setup_logging *)

\* logging.basicConfig(level=logging.INFO, handlers=[FileHandler(log_file)]):
\* the level of the root logger, which the loggers "trellis_mcp" and
\* "trellis_mcp.client" inherit, having none of their own.
LOG_LEVEL == "INFO"

\* The numeric value of a level of the logging module.
Severity(level) ==
    CASE level = "DEBUG" -> 10
      [] level = "INFO"  -> 20
      [] level = "ERROR" -> 40

\* The logger call reaches the log file: its level is not below the logger's.
IsWritten(e) == IsLog(e) /\ Severity(e.level) >= Severity(LOG_LEVEL)

-----------------------------------------------------------------------------
(* TrellisClient.__init__ *)

\* raise ValueError(msg)
ValueError(msg) == [type |-> "ValueError", msg |-> msg]

\* TrellisClient without the check of the project id.
TrellisClient_NoValidation(e) ==
    LET self == [api_key     |-> e["TRELLIS_API_KEY"],
                 workflow_id |-> e["TRELLIS_WORKFLOW_ID"],
                 project_id  |-> e["TRELLIS_PROJECT_ID"]]
    IN  IF FalsyStr(self.api_key)
        THEN [raised |-> TRUE, self |-> self, trace |-> <<>>,
              exc |-> ValueError("TRELLIS_API_KEY environment variable is required")]
        ELSE IF FalsyStr(self.workflow_id)
        THEN [raised |-> TRUE, self |-> self, trace |-> <<>>,
              exc |-> ValueError("TRELLIS_WORKFLOW_ID environment variable is required")]
        ELSE [raised |-> FALSE, self |-> self, exc |-> ValueError(""),
              trace |-> <<LogEv("trellis_mcp.client", "INFO",
                                [text |-> "Initialized TrellisClient for project ", project_id |-> Str(self.project_id)]),
                          LogEv("trellis_mcp.client", "INFO",
                                [text |-> "Target workflow: ", workflow_id |-> Str(self.workflow_id)])>>]

\* TrellisClient(): the fields are read from the environment, then checked in
\* the order api_key, workflow_id, project_id; the first one that is None or
\* "" raises a ValueError naming its variable.
TrellisClient(e) ==
    LET self == [api_key     |-> e["TRELLIS_API_KEY"],
                 workflow_id |-> e["TRELLIS_WORKFLOW_ID"],
                 project_id  |-> e["TRELLIS_PROJECT_ID"]]
    IN  IF FalsyStr(self.api_key)
        THEN [raised |-> TRUE, self |-> self, trace |-> <<>>,
              exc |-> ValueError("TRELLIS_API_KEY environment variable is required")]
        ELSE IF FalsyStr(self.workflow_id)
        THEN [raised |-> TRUE, self |-> self, trace |-> <<>>,
              exc |-> ValueError("TRELLIS_WORKFLOW_ID environment variable is required")]
        ELSE IF FalsyStr(self.project_id)
        THEN [raised |-> TRUE, self |-> self, trace |-> <<>>,
              exc |-> ValueError("TRELLIS_PROJECT_ID environment variable is required")]
        ELSE [raised |-> FALSE, self |-> self, exc |-> ValueError(""),
              trace |-> <<LogEv("trellis_mcp.client", "INFO",
                                [text |-> "Initialized TrellisClient for project ", project_id |-> Str(self.project_id)]),
                          LogEv("trellis_mcp.client", "INFO",
                                [text |-> "Target workflow: ", workflow_id |-> Str(self.workflow_id)])>>]

(* server.py, module level *)

\* server_import surviving a constructor that raised.
server_import_Lazy(e) ==
    LET c == TrellisClient(e)
        starting == <<LogEv("trellis_mcp", "INFO", [text |-> "Trellis MCP Server starting..."])>>
    IN  [phase |-> "serving", client |-> Some(c.self), error |-> None,
         trace |-> starting \o c.trace]

\* Importing server.py: setup_logging(), FastMCP(...), client = TrellisClient().
\* An exception of the constructor ends the import, so that no tool below it
\* is ever registered.
server_import(e) ==
    LET c == TrellisClient(e)
        starting == <<LogEv("trellis_mcp", "INFO", [text |-> "Trellis MCP Server starting..."])>>
    IN  IF c.raised
        THEN [phase |-> "fatal", client |-> None, error |-> Some(c.exc),
              trace |-> starting \o c.trace]
        ELSE [phase |-> "serving", client |-> Some(c.self), error |-> None,
              trace |-> starting \o c.trace]

-----------------------------------------------------------------------------
(* The requests library, as far as _request relies on it *)

\* The parsed JSON documents the remote API answers with.
JsonValues ==
    { [data |-> [id |-> "wf_1", nodes |-> <<>>]],
      [error |-> "bad field"] }

\* The text of a JSON document, as a sequence of lexical units.
json_dumps(v) ==
    IF "data" \in DOMAIN v
    THEN <<"{", "\"data\"", ":", "{", "\"id\"", ":", "\"" \o v.data.id \o "\"", ",",
           "\"nodes\"", ":", "[", "]", "}", "}">>
    ELSE <<"{", "\"error\"", ":", "\"" \o v.error \o "\"", "}">>

\* A body that is no JSON document: n units of plain text.
PlainText(n) == [i \in 1..n |-> "x"]

IsJson(text) == \E v \in JsonValues : json_dumps(v) = text

\* json.loads(text), where IsJson(text)
json_loads(text) == CHOOSE v \in JsonValues : json_dumps(v) = text

\* The exception classes of requests.exceptions and their base classes.
\* JSONDecodeError is what Response.json() raises for a body that is no JSON
\* document; it derives from RequestException (requests 2.27 and later).
Bases(type) ==
    CASE type = "HTTPError"       -> {"HTTPError", "RequestException", "Exception"}
      [] type = "ReadTimeout"     -> {"ReadTimeout", "Timeout", "RequestException", "Exception"}
      [] type = "ConnectTimeout"  -> {"ConnectTimeout", "ConnectionError", "Timeout",
                                      "RequestException", "Exception"}
      [] type = "ConnectionError" -> {"ConnectionError", "RequestException", "Exception"}
      [] type = "JSONDecodeError" -> {"JSONDecodeError", "InvalidJSONError",
                                      "RequestException", "Exception"}
      [] OTHER                    -> {type, "Exception"}

\* isinstance(exc, cls)
IsInstance(exc, cls) == cls \in Bases(exc.type)

\* An exception of requests; `response` is None where there is none.
RequestsError(type, response) == [type |-> type, response |-> response]

\* Response.raise_for_status() raises for 400 <= status_code < 600.
IsHTTPErrorStatus(status) == 400 <= status /\ status < 600

-----------------------------------------------------------------------------
(* TrellisClient._get_headers and TrellisClient._request *)

_get_headers(self) ==
    [k \in {"Authorization", "Content-Type", "API-Version"} |->
        CASE k = "Authorization" -> Str(self.api_key)
          [] k = "Content-Type"  -> "application/json"
          [] k = "API-Version"   -> API_VERSION]

\* return value / raise exc, as the caller of a function sees it
Return(value) == [kind |-> "return", value |-> value]

Raise(exc) == [kind |-> "raise", exc |-> exc]

\* _request_call with the defaults winning over the caller's headers.
_request_call_DefaultsWin(self, method, endpoint, timeout, kwargs) ==
    LET url == BASE_URL \o endpoint
        headers == _get_headers(self)
        merged == IF "headers" \in DOMAIN kwargs
                  THEN DictUpdate(kwargs["headers"], headers)
                  ELSE headers
    IN  [method |-> method, url |-> url, headers |-> merged, timeout |-> timeout,
         kwargs |-> [k \in DOMAIN kwargs \ {"headers"} |-> kwargs[k]]]

\* Lines 80-96: the keyword arguments _request hands to requests.request.
\* kwargs maps the names of the extra keyword arguments to their values.
_request_call(self, method, endpoint, timeout, kwargs) ==
    LET url == BASE_URL \o endpoint
        headers == _get_headers(self)
        merged == IF "headers" \in DOMAIN kwargs
                  THEN DictUpdate(headers, kwargs["headers"])
                  ELSE headers
    IN  [method |-> method, url |-> url, headers |-> merged, timeout |-> timeout,
         kwargs |-> [k \in DOMAIN kwargs \ {"headers"} |-> kwargs[k]]]

\* Lines 80-96: _request up to the point where it blocks in requests.request.
_request_begin(self, method, endpoint, timeout, kwargs) ==
    LET call == _request_call(self, method, endpoint, timeout, kwargs)
    IN  <<LogEv("trellis_mcp.client", "DEBUG",
                [text |-> "", method |-> method, url |-> call.url]),
          HttpEv(call)>>

\* _request_except with the error body logged whole, and its parse unguarded.
_request_except_NoTruncate(exc, timeout) ==
    IF IsInstance(exc, "HTTPError")
    THEN LET text == exc.response[1].text
         IN  IF IsJson(text)
             THEN [trace |-> <<LogEv("trellis_mcp.client", "ERROR",
                                     [text |-> "HTTP error: ", exc |-> exc,
                                      error_detail |-> [json |-> TRUE,
                                                        body |-> json_loads(text)]])>>,
                   outcome |-> Raise(exc)]
             ELSE [trace |-> <<LogEv("trellis_mcp.client", "ERROR",
                                     [text |-> "HTTP error: ", exc |-> exc,
                                      error_detail |-> [json |-> FALSE, text |-> text]])>>,
                   outcome |-> Raise(exc)]
    ELSE IF IsInstance(exc, "Timeout")
    THEN [trace |-> <<LogEv("trellis_mcp.client", "ERROR",
                            [text |-> "Request timeout after ", timeout |-> timeout,
                             exc |-> exc])>>,
          outcome |-> Raise(exc)]
    ELSE [trace |-> <<LogEv("trellis_mcp.client", "ERROR",
                            [text |-> "Request failed: ", exc |-> exc])>>,
          outcome |-> Raise(exc)]

\* _request_except with an HTTPError clause that re-raises without logging.
_request_except_Unlogged(exc, timeout) ==
    IF IsInstance(exc, "HTTPError")
    THEN [trace |-> <<>>, outcome |-> Raise(exc)]
    ELSE IF IsInstance(exc, "Timeout")
    THEN [trace |-> <<LogEv("trellis_mcp.client", "ERROR",
                            [text |-> "Request timeout after ", timeout |-> timeout,
                             exc |-> exc])>>,
          outcome |-> Raise(exc)]
    ELSE [trace |-> <<LogEv("trellis_mcp.client", "ERROR",
                            [text |-> "Request failed: ", exc |-> exc])>>,
          outcome |-> Raise(exc)]

\* _request_except with the RequestException clause written first: it catches
\* the HTTPError and the Timeout too.
_request_except_GenericFirst(exc, timeout) ==
    IF IsInstance(exc, "RequestException")
    THEN [trace |-> <<LogEv("trellis_mcp.client", "ERROR",
                            [text |-> "Request failed: ", exc |-> exc])>>,
          outcome |-> Raise(exc)]
    ELSE [trace |-> <<>>, outcome |-> Raise(exc)]

\* Lines 107-125: the except clauses of _request, tried in order; each logs
\* and re-raises the exception it caught.  An exception that matches none
\* leaves _request as it is.
_request_except(exc, timeout) ==
    IF IsInstance(exc, "HTTPError")
    THEN LET text == exc.response[1].text
             error_detail == IF IsJson(text)
                             THEN [json |-> TRUE, body |-> json_loads(text)]
                             ELSE [json |-> FALSE, text |-> Slice(text, TruncLen)]
         IN  [trace |-> <<LogEv("trellis_mcp.client", "ERROR",
                                [text |-> "HTTP error: ", exc |-> exc,
                                 error_detail |-> error_detail])>>,
              outcome |-> Raise(exc)]
    ELSE IF IsInstance(exc, "Timeout")
    THEN [trace |-> <<LogEv("trellis_mcp.client", "ERROR",
                            [text |-> "Request timeout after ", timeout |-> timeout,
                             exc |-> exc])>>,
          outcome |-> Raise(exc)]
    ELSE IF IsInstance(exc, "RequestException")
    THEN [trace |-> <<LogEv("trellis_mcp.client", "ERROR",
                            [text |-> "Request failed: ", exc |-> exc])>>,
          outcome |-> Raise(exc)]
    ELSE [trace |-> <<>>, outcome |-> Raise(exc)]

\* Lines 98-105 and the except clauses they lead to: _request once
\* requests.request has returned a response.
_request_response(call, response) ==
    LET status == <<LogEv("trellis_mcp.client", "DEBUG",
                          [text |-> "Response status: ",
                           status_code |-> response.status_code])>>
        handled ==
            IF IsHTTPErrorStatus(response.status_code)
            THEN _request_except(RequestsError("HTTPError", Some(response)), call.timeout)
            ELSE IF IsJson(response.text)
            THEN [trace |-> <<>>, outcome |-> Return(json_loads(response.text))]
            ELSE _request_except(RequestsError("JSONDecodeError", None), call.timeout)
    IN  [trace |-> status \o handled.trace, outcome |-> handled.outcome]

\* _request_end with a second attempt after an exception of requests.request.
_request_end_Retry(call, net) ==
    IF net.kind = "raise"
    THEN LET again == _request_except(RequestsError(net.type, None), call.timeout)
         IN  [trace |-> <<HttpEv(call)>> \o again.trace, outcome |-> again.outcome]
    ELSE _request_response(call, net.response)

\* _request_end returning response.json()["data"] where there is such a key.
_request_end_Unwrap(call, net) ==
    IF net.kind = "raise"
    THEN _request_except(RequestsError(net.type, None), call.timeout)
    ELSE LET r == _request_response(call, net.response)
         IN  IF r.outcome.kind = "return" /\ "data" \in DOMAIN r.outcome.value
             THEN [trace |-> r.trace, outcome |-> Return(r.outcome.value.data)]
             ELSE r

\* Lines 89-125: _request from the result of requests.request on.  net is what
\* the library call did: it raised (a timeout, a connection failure) or it
\* returned a response.
_request_end(call, net) ==
    IF net.kind = "raise"
    THEN _request_except(RequestsError(net.type, None), call.timeout)
    ELSE _request_response(call, net.response)

-----------------------------------------------------------------------------
(* The endpoint methods of TrellisClient.  Each logs, then returns           *)
(* self._request(method, endpoint, **kwargs) with the default timeout; what  *)
(* is given here is its log events and the arguments of that call.           *)

NoKwargs == [k \in {} |-> None]

get_transformations(self) ==
    [log      |-> <<LogEv("trellis_mcp.client", "INFO", [text |-> "Fetching transformations"])>>,
     method   |-> "GET",
     endpoint |-> "/transforms",
     kwargs   |-> [params |-> [proj_ids |-> <<Str(self.project_id)>>,
                               include_transform_params |-> TRUE]]]

get_transformation_operations(self, transform_id) ==
    [log      |-> <<LogEv("trellis_mcp.client", "INFO",
                          [text |-> "Fetching operations for transform ",
                           transform_id |-> transform_id])>>,
     method   |-> "GET",
     endpoint |-> "/transforms/" \o transform_id \o "/operations",
     kwargs   |-> NoKwargs]

get_entities(self) ==
    [log      |-> <<LogEv("trellis_mcp.client", "INFO", [text |-> "Fetching entities"])>>,
     method   |-> "GET",
     endpoint |-> "/entities",
     kwargs   |-> [params |-> [project_id |-> Str(self.project_id)]]]

get_entity_fields(self, entity_id) ==
    [log      |-> <<LogEv("trellis_mcp.client", "INFO",
                          [text |-> "Fetching fields for entity ",
                           entity_id |-> entity_id])>>,
     method   |-> "GET",
     endpoint |-> "/entities/" \o entity_id \o "/fields",
     kwargs   |-> NoKwargs]

get_workflow_config(self) ==
    [log      |-> <<LogEv("trellis_mcp.client", "INFO",
                          [text |-> "Fetching config for workflow ",
                           workflow_id |-> Str(self.workflow_id)])>>,
     method   |-> "GET",
     endpoint |-> "/workflows/" \o Str(self.workflow_id) \o "/config",
     kwargs   |-> NoKwargs]

\* update_workflow_blocks testing `deleted_block_ids is not None`.
update_workflow_blocks_NotNone(self, blocks, deleted_block_ids) ==
    LET payload == IF deleted_block_ids # None
                   THEN [blocks |-> blocks, deleted_block_ids |-> deleted_block_ids[1]]
                   ELSE [blocks |-> blocks]
    IN  [log      |-> <<LogEv("trellis_mcp.client", "INFO",
                              [text |-> "Updating blocks for workflow ",
                               workflow_id |-> Str(self.workflow_id)])>>,
         method   |-> "PATCH",
         endpoint |-> "/workflows/" \o Str(self.workflow_id) \o "/blocks",
         kwargs   |-> [json |-> payload]]

\* update_workflow_blocks taking the workflow from its argument: the id of the
\* first block.
update_workflow_blocks_IdFromBlock(self, blocks, deleted_block_ids) ==
    LET payload == IF TruthyList(deleted_block_ids)
                   THEN [blocks |-> blocks, deleted_block_ids |-> deleted_block_ids[1]]
                   ELSE [blocks |-> blocks]
    IN  [log      |-> <<LogEv("trellis_mcp.client", "INFO",
                              [text |-> "Updating blocks for workflow ",
                               workflow_id |-> blocks[1].id])>>,
         method   |-> "PATCH",
         endpoint |-> "/workflows/" \o blocks[1].id \o "/blocks",
         kwargs   |-> [json |-> payload]]

\* blocks is a list; deleted_block_ids is None or a list.
update_workflow_blocks(self, blocks, deleted_block_ids) ==
    LET payload == IF TruthyList(deleted_block_ids)
                   THEN [blocks |-> blocks, deleted_block_ids |-> deleted_block_ids[1]]
                   ELSE [blocks |-> blocks]
    IN  [log      |-> <<LogEv("trellis_mcp.client", "INFO",
                              [text |-> "Updating blocks for workflow ",
                               workflow_id |-> Str(self.workflow_id)]),
                        LogEv("trellis_mcp.client", "DEBUG",
                              [text |-> "Blocks to update: ", len |-> Len(blocks)])>>
                      \o (IF TruthyList(deleted_block_ids)
                          THEN <<LogEv("trellis_mcp.client", "DEBUG",
                                       [text |-> "Blocks to delete: ",
                                        len |-> Len(deleted_block_ids[1])])>>
                          ELSE <<>>),
         method   |-> "PATCH",
         endpoint |-> "/workflows/" \o Str(self.workflow_id) \o "/blocks",
         kwargs   |-> [json |-> payload]]

-----------------------------------------------------------------------------
(* The tools of server.py.  A tool is named as it is registered; args are   *)
(* its arguments in order.                                                   *)

Tools ==
    {"get_transformations", "get_transformation_details", "get_entities",
     "get_entity_fields", "get_workflow_config", "update_workflow_blocks"}

\* The client method each tool calls, with the arguments it passes on.
client_method(self, tool, args) ==
    CASE tool = "get_transformations"        -> get_transformations(self)
      [] tool = "get_transformation_details" -> get_transformation_operations(self, args[1])
      [] tool = "get_entities"               -> get_entities(self)
      [] tool = "get_entity_fields"          -> get_entity_fields(self, args[1])
      [] tool = "get_workflow_config"        -> get_workflow_config(self)
      [] tool = "update_workflow_blocks"     -> update_workflow_blocks(self, args[1], args[2])

\* The tool's first statement: logger.info("Tool called: ...").
tool_called(tool, args) ==
    <<LogEv("trellis_mcp", "INFO", [text |-> "Tool called: ", tool |-> tool, args |-> args])>>

\* The tool up to the point where it blocks: its log line, the client
\* method's, and _request up to requests.request.
tool_begin(self, tool, args) ==
    LET m == client_method(self, tool, args)
    IN  tool_called(tool, args) \o m.log
            \o _request_begin(self, m.method, m.endpoint, DefaultTimeout, m.kwargs)

\* tool_end answering a failure with an error value instead of re-raising.
tool_end_Swallow(tool, args, result) ==
    IF result.kind = "return"
    THEN [trace   |-> <<LogEv("trellis_mcp", "INFO",
                              [text |-> "Successfully ", tool |-> tool])>>,
          outcome |-> Return(result.value)]
    ELSE [trace   |-> <<LogEv("trellis_mcp", "ERROR",
                              [text |-> "Failed to ", tool |-> tool, exc |-> result.exc])>>,
          outcome |-> Return([error |-> result.exc.type])]

\* The tool's try/except around the client method, whose outcome is result:
\* a value is logged as a success and returned; an Exception is logged and
\* re-raised by a bare `raise`.
tool_end(tool, args, result) ==
    IF result.kind = "return"
    THEN [trace   |-> <<LogEv("trellis_mcp", "INFO",
                              [text |-> "Successfully ", tool |-> tool])>>,
          outcome |-> Return(result.value)]
    ELSE IF IsInstance(result.exc, "Exception")
    THEN [trace   |-> <<LogEv("trellis_mcp", "ERROR",
                              [text |-> "Failed to ", tool |-> tool, exc |-> result.exc])>>,
          outcome |-> Raise(result.exc)]
    ELSE [trace |-> <<>>, outcome |-> Raise(result.exc)]

-----------------------------------------------------------------------------
(* The inputs of the model *)

Slots == 1..NumSlots

\* A setting is unset, set to the empty string, or set to a value.
Environments ==
    [TRELLIS_API_KEY     : {None, Some(""), Some("key_1")},
     TRELLIS_WORKFLOW_ID : {None, Some(""), Some("wf_1"), Some("wf_2")},
     TRELLIS_PROJECT_ID  : {None, Some(""), Some("proj_1")}]

TransformIds == {"transform_abc123", "wf_2"}

EntityIds == {"entity_42"}

BlockLists == {<<[id |-> "block_123", name |-> "Updated name"]>>}

DeletedLists == {None, Some(<<>>), Some(<<"a", "b">>)}

ToolCalls ==
    {[tool |-> t, args |-> <<>>] :
        t \in {"get_transformations", "get_entities", "get_workflow_config"}}
    \cup {[tool |-> "get_transformation_details", args |-> <<id>>] : id \in TransformIds}
    \cup {[tool |-> "get_entity_fields", args |-> <<id>>] : id \in EntityIds}
    \cup {[tool |-> "update_workflow_blocks", args |-> <<b, d>>] :
             b \in BlockLists, d \in DeletedLists}

Statuses == {200, 304, 422, 500}

Bodies ==
    {json_dumps(v) : v \in JsonValues}
    \cup {PlainText(n) : n \in {0, TruncLen, MaxBodyLen}}

\* What a call of requests.request can do: return a response, or raise.
NetOutcomes ==
    {[kind |-> "response", response |-> [status_code |-> s, text |-> t]] :
        s \in Statuses, t \in Bodies}
    \cup {[kind |-> "raise", type |-> ty] :
             ty \in {"ReadTimeout", "ConnectTimeout", "ConnectionError"}}

-----------------------------------------------------------------------------
(* The state machine *)

Idle == [pc |-> "idle"]

NoLast == [pc |-> "none"]

\* The requests.request call an in-flight invocation is blocked in.
PendingCall(c) == c.trace[Len(c.trace)].call

Init ==
    /\ env \in Environments
    /\ phase = "import"
    /\ client = None
    /\ boot = [trace |-> <<>>, error |-> None]
    /\ calls = [i \in Slots |-> Idle]
    /\ last = NoLast

\* The process starts: server.py is imported.
ServerImport ==
    /\ phase = "import"
    /\ LET r == server_import(env)
       IN  /\ phase' = r.phase
           /\ client' = r.client
           /\ boot' = [trace |-> r.trace, error |-> r.error]
    /\ UNCHANGED <<env, calls, last>>

\* Invoke with a client method that keeps the id it was called with on the
\* client, as its workflow_id.
Invoke_StoresArg(i, tc) ==
    /\ phase = "serving"
    /\ calls[i].pc = "idle"
    /\ calls' = [calls EXCEPT ![i] =
                    [pc |-> "http", tool |-> tc.tool, args |-> tc.args,
                     trace |-> tool_begin(client[1], tc.tool, tc.args)]]
    /\ client' = IF tc.tool = "get_transformation_details"
                 THEN Some([client[1] EXCEPT !.workflow_id = Some(tc.args[1])])
                 ELSE client
    /\ UNCHANGED <<env, phase, boot, last>>

\* The host runtime invokes a registered tool; the invocation runs up to its
\* requests.request call.
Invoke(i, tc) ==
    /\ phase = "serving"
    /\ calls[i].pc = "idle"
    /\ calls' = [calls EXCEPT ![i] =
                    [pc |-> "http", tool |-> tc.tool, args |-> tc.args,
                     trace |-> tool_begin(client[1], tc.tool, tc.args)]]
    /\ UNCHANGED <<env, phase, client, boot, last>>

\* requests.request returns or raises; _request, the client method and the
\* tool run to their end, and the caller of the tool gets its outcome.
Complete(i, net) ==
    /\ calls[i].pc = "http"
    /\ LET c == calls[i]
           call == PendingCall(c)
           r == _request_end(call, net)
           t == tool_end(c.tool, c.args, r.outcome)
       IN  last' = [pc |-> "done", tool |-> c.tool, args |-> c.args, call |-> call,
                    net |-> net, result |-> r.outcome, outcome |-> t.outcome,
                    trace |-> c.trace \o r.trace \o t.trace]
    /\ calls' = [calls EXCEPT ![i] = Idle]
    /\ UNCHANGED <<env, phase, client, boot>>

Next ==
    \/ ServerImport
    \/ \E i \in Slots, tc \in ToolCalls : Invoke(i, tc)
    \/ \E i \in Slots, net \in NetOutcomes : Complete(i, net)

Spec == Init /\ [][Next]_vars

-----------------------------------------------------------------------------
(* _request on its own: the primitive called directly on a constructed       *)
(* client, with a timeout and extra keyword arguments of the caller's        *)
(* choice, among them custom headers.                                        *)

CustomHeaders ==
    UNION {[names -> {"custom"}] :
              names \in SUBSET {"Authorization", "API-Version", "X-Request-Id"}}

RequestArgs ==
    {<<"GET", "/entities", t, NoKwargs>> : t \in {5, DefaultTimeout}}
    \cup {<<"GET", "/entities", t, [headers |-> h]>> :
             t \in {5, DefaultTimeout}, h \in CustomHeaders}

\* A server whose import succeeded and that has served nothing yet.
InitRequest ==
    /\ env \in {e \in Environments : ~TrellisClient(e).raised}
    /\ phase = "serving"
    /\ client = server_import(env).client
    /\ boot = [trace |-> server_import(env).trace, error |-> None]
    /\ calls = [i \in Slots |-> Idle]
    /\ last = NoLast

\* client._request(method, endpoint, timeout, **kwargs), up to requests.request
RequestBegin(a) ==
    /\ calls[1].pc = "idle"
    /\ calls' = [calls EXCEPT ![1] =
                    [pc |-> "http", tool |-> "_request", args |-> a,
                     trace |-> _request_begin(client[1], a[1], a[2], a[3], a[4])]]
    /\ UNCHANGED <<env, phase, client, boot, last>>

\* ... and from the result of requests.request to its return or raise.
RequestEnd(net) ==
    /\ calls[1].pc = "http"
    /\ LET c == calls[1]
           call == PendingCall(c)
           r == _request_end(call, net)
       IN  last' = [pc |-> "done", tool |-> c.tool, args |-> c.args, call |-> call,
                    net |-> net, result |-> r.outcome, outcome |-> r.outcome,
                    trace |-> c.trace \o r.trace]
    /\ calls' = [calls EXCEPT ![1] = Idle]
    /\ UNCHANGED <<env, phase, client, boot>>

NextRequest ==
    \/ \E a \in RequestArgs : RequestBegin(a)
    \/ \E net \in NetOutcomes : RequestEnd(net)

SpecRequest == InitRequest /\ [][NextRequest]_vars

-----------------------------------------------------------------------------
(* Concurrent invocations: the host runtime has several tools running at    *)
(* once, each blocked in its own requests.request call, and they complete   *)
(* in any order.  The invocations share the module-level client and nothing *)
(* else.  The inputs are fewer than above, to leave room for the            *)
(* interleavings.                                                            *)

ConcurrentSlots == 1..(NumSlots + 1)

ConcurrentToolCalls ==
    {tc \in ToolCalls :
        \/ tc.tool = "get_workflow_config"
        \/ tc.tool = "get_transformation_details" /\ tc.args = <<"wf_2">>
        \/ tc.tool = "update_workflow_blocks" /\ tc.args[2] \in {None, Some(<<"a", "b">>)}}

ConcurrentNetOutcomes ==
    {net \in NetOutcomes :
        \/ net.kind = "raise" /\ net.type = "ReadTimeout"
        \/ /\ net.kind = "response"
           /\ net.response.status_code = 200
           /\ net.response.text = json_dumps([data |-> [id |-> "wf_1", nodes |-> <<>>]])
        \/ /\ net.kind = "response"
           /\ net.response.status_code = 422
           /\ net.response.text = json_dumps([error |-> "bad field"])}

InitConcurrent ==
    /\ env \in Environments
    /\ phase = "import"
    /\ client = None
    /\ boot = [trace |-> <<>>, error |-> None]
    /\ calls = [i \in ConcurrentSlots |-> Idle]
    /\ last = NoLast

NextConcurrent ==
    \/ ServerImport
    \/ \E i \in ConcurrentSlots, tc \in ConcurrentToolCalls : Invoke(i, tc)
    \/ \E i \in ConcurrentSlots, net \in ConcurrentNetOutcomes : Complete(i, net)

SpecConcurrent == InitConcurrent /\ [][NextConcurrent]_vars

-----------------------------------------------------------------------------
(* Vocabulary of the properties *)

SettingNames == {"TRELLIS_API_KEY", "TRELLIS_WORKFLOW_ID", "TRELLIS_PROJECT_ID"}

\* The setting is there and is not the empty string.
IsSet(name) == env[name] # None /\ env[name] # Some("")

\* The invocations the state shows: those in flight and the last one completed.
InFlight == {i \in Slots : calls[i].pc = "http"}

Done == last.pc = "done"

\* The requests.request calls among the events of a trace.
HttpCalls(trace) == Where(trace, IsHttp)

\* The logger.error calls of _request among the events of a trace.
ClientErrors(trace) ==
    {i \in DOMAIN trace :
        /\ IsLog(trace[i])
        /\ trace[i].logger = "trellis_mcp.client"
        /\ trace[i].level = "ERROR"}

Is2xx(status) == 200 <= status /\ status < 300

-----------------------------------------------------------------------------
(* Properties *)

\* C1: once server.py has constructed (or failed to construct) the client,
\* construction has succeeded exactly when all three settings are present and
\* non-empty, the client then holds the three values, all non-empty; and it has
\* failed with a ValueError whose message names a setting that is absent or
\* empty, leaving no client.
C1_ConstructionValidates ==
    phase # "import" =>
        /\ (phase = "serving") <=> (\A n \in SettingNames : IsSet(n))
        /\ phase = "serving" =>
              /\ client = Some([api_key     |-> env["TRELLIS_API_KEY"],
                                workflow_id |-> env["TRELLIS_WORKFLOW_ID"],
                                project_id  |-> env["TRELLIS_PROJECT_ID"]])
              /\ \A f \in {"api_key", "workflow_id", "project_id"} :
                     client[1][f] # None /\ client[1][f] # Some("")
              /\ boot.error = None
        /\ phase # "serving" =>
              /\ phase = "fatal"
              /\ client = None
              /\ \E n \in SettingNames :
                     /\ ~IsSet(n)
                     /\ boot.error =
                            Some(ValueError(n \o " environment variable is required"))
              /\ \A n \in SettingNames :
                     (\A m \in SettingNames \ {n} : IsSet(m)) /\ ~IsSet(n) =>
                         boot.error =
                             Some(ValueError(n \o " environment variable is required"))

\* C1 witness: construction has failed because only the project id, the last
\* setting checked, is set to the empty string.
C1_Witness ==
    /\ phase = "fatal"
    /\ env["TRELLIS_PROJECT_ID"] = Some("")
    /\ IsSet("TRELLIS_API_KEY") /\ IsSet("TRELLIS_WORKFLOW_ID")
    /\ boot.error = Some(ValueError("TRELLIS_PROJECT_ID environment variable is required"))

\* C10: the import of server.py, constructor included, issues no HTTP request;
\* no tool is invoked before the import is over; and in a run where one of the
\* three settings is missing the import is fatal, no invocation ever starts or
\* completes and no HTTP request is issued: whenever an invocation is in flight
\* or has completed, the server is serving with a client built from three
\* settings that are all present.
C10_MissingSettingIsFatalAtStartup ==
    /\ HttpCalls(boot.trace) = {}
    /\ phase # "serving" => InFlight = {} /\ ~Done
    /\ (\E n \in SettingNames : ~IsSet(n)) =>
           /\ phase \in {"import", "fatal"}
           /\ InFlight = {} /\ ~Done
    /\ phase = "fatal" => client = None /\ boot.error # None
    /\ (InFlight # {} \/ Done) =>
           /\ phase = "serving"
           /\ client # None
           /\ \A n \in SettingNames : IsSet(n)

\* C10 witness: the import has died of an unset API key, and nothing has been
\* or is being served.
C10_Witness ==
    /\ phase = "fatal"
    /\ env["TRELLIS_API_KEY"] = None
    /\ boot.error = Some(ValueError("TRELLIS_API_KEY environment variable is required"))
    /\ InFlight = {} /\ ~Done

\* The number of leading units of a body that _request logs for a non-JSON body.
Shown(text) == IF Len(text) < TruncLen THEN Len(text) ELSE TruncLen

\* C2 (as amended): for every response whose status is 4xx or 5xx, _request
\* never returns a value: it raises the HTTPError that carries the response,
\* status code included, and the one error it logs holds the parsed body if the
\* body is JSON and otherwise the first 200 units of the raw body; no secondary
\* error replaces the HTTPError.
C2_HttpErrorStatusRaises ==
    (Done /\ last.net.kind = "response"
          /\ IsHTTPErrorStatus(last.net.response.status_code)) =>
        LET response == last.net.response
            errs == ClientErrors(last.trace)
        IN  /\ last.result.kind = "raise"
            /\ last.result.exc.type = "HTTPError"
            /\ last.result.exc.response = Some(response)
            /\ Cardinality(errs) = 1
            /\ \A i \in errs :
                  LET msg == last.trace[i].msg
                  IN  /\ msg.text = "HTTP error: "
                      /\ msg.exc.response[1].status_code = response.status_code
                      /\ \A v \in JsonValues :
                             response.text = json_dumps(v) =>
                                 msg.error_detail = [json |-> TRUE, body |-> v]
                      /\ (\A v \in JsonValues : response.text # json_dumps(v)) =>
                             /\ msg.error_detail.json = FALSE
                             /\ Len(msg.error_detail.text) = Shown(response.text)
                             /\ \A k \in 1..Shown(response.text) :
                                    msg.error_detail.text[k] = response.text[k]

\* C2 witness: a 500 whose plain-text body is longer than 200 units has been
\* raised as an HTTPError.
C2_Witness ==
    /\ Done
    /\ last.net.kind = "response"
    /\ last.net.response.status_code = 500
    /\ last.net.response.text = PlainText(MaxBodyLen)
    /\ Len(last.net.response.text) > TruncLen
    /\ last.result.kind = "raise"

\* C2 as stated, in its first part: for every response whose status is not
\* 2xx, _request never returns a value.
C2_Original ==
    (Done /\ last.net.kind = "response"
          /\ ~Is2xx(last.net.response.status_code)) =>
        last.result.kind = "raise"

\* C3: every failed _request has logged exactly one error, of exactly one of
\* three kinds: a timeout of requests.request is raised as a Timeout, which is
\* no HTTPError, and logged as a timeout with the timeout the call was given;
\* a 4xx/5xx response is raised and logged as an HTTP error; every other
\* failure is raised and logged as a generic request failure.  A request that
\* timed out never returns.
C3_FailureClassification ==
    /\ (Done /\ last.net.kind = "raise") => last.result.kind = "raise"
    /\ (Done /\ last.result.kind = "raise") =>
        LET exc == last.result.exc
            net == last.net
            errs == ClientErrors(last.trace)
            isTimeout == net.kind = "raise" /\ net.type \in {"ReadTimeout", "ConnectTimeout"}
            isHttp == net.kind = "response" /\ IsHTTPErrorStatus(net.response.status_code)
        IN  /\ Cardinality(errs) = 1
            /\ \A i \in errs :
                  LET msg == last.trace[i].msg
                  IN  /\ msg.text \in {"HTTP error: ", "Request timeout after ",
                                       "Request failed: "}
                      /\ isTimeout =>
                             /\ msg.text = "Request timeout after "
                             /\ msg.timeout = last.args[3]
                             /\ exc.type \in {"ReadTimeout", "ConnectTimeout"}
                      /\ isHttp =>
                             /\ msg.text = "HTTP error: "
                             /\ exc.type = "HTTPError"
                      /\ (~isTimeout /\ ~isHttp) =>
                             /\ msg.text = "Request failed: "
                             /\ exc.type \notin {"HTTPError", "ReadTimeout", "ConnectTimeout"}

\* C3 witness: a call given a timeout of 5 seconds has ended in a connect
\* timeout, which is a ConnectionError and a Timeout at once.
C3_Witness ==
    /\ Done
    /\ last.tool = "_request"
    /\ last.args[3] = 5
    /\ last.net.kind = "raise"
    /\ last.net.type = "ConnectTimeout"
    /\ last.result.kind = "raise"

\* C4: every tool invocation, in flight or completed, has called
\* requests.request exactly once, whatever the outcome; and the outcome the
\* caller gets is that of this one attempt.
C4_ExactlyOneRequest ==
    /\ \A i \in InFlight : Cardinality(HttpCalls(calls[i].trace)) = 1
    /\ Done =>
          /\ Cardinality(HttpCalls(last.trace)) = 1
          /\ last.net.kind = "raise" =>
                 /\ last.outcome.kind = "raise"
                 /\ last.outcome.exc.type = last.net.type
          /\ (last.net.kind = "response"
                 /\ IsHTTPErrorStatus(last.net.response.status_code)) =>
                 /\ last.outcome.kind = "raise"
                 /\ last.outcome.exc.response = Some(last.net.response)
          /\ last.outcome.kind = "return" =>
                 /\ last.net.kind = "response"
                 /\ last.outcome.value \in JsonValues
                 /\ json_dumps(last.outcome.value) = last.net.response.text

\* C4 witness: a tool invocation whose one request timed out has completed.
C4_Witness ==
    /\ Done
    /\ last.tool \in Tools
    /\ last.net.kind = "raise"
    /\ last.net.type = "ReadTimeout"
    /\ Cardinality(HttpCalls(last.trace)) = 1
    /\ last.outcome.kind = "raise"

\* C5: when the client method of a tool fails, the tool raises to its caller
\* the very exception the client method raised, which is the one requests
\* raised: the timeout or connection error of requests.request, or the
\* HTTPError of the 4xx/5xx response with that response attached.  No failure
\* comes out as a return value.
C5_ToolReraisesSameError ==
    Done =>
        /\ last.result.kind = "raise" => last.outcome = last.result
        /\ last.net.kind = "raise" =>
               last.outcome = Raise(RequestsError(last.net.type, None))
        /\ (last.net.kind = "response"
               /\ IsHTTPErrorStatus(last.net.response.status_code)) =>
               last.outcome = Raise(RequestsError("HTTPError", Some(last.net.response)))

\* C5 witness: update_workflow_blocks has failed with a 422 and a JSON error
\* body, and the tool has raised.
C5_Witness ==
    /\ Done
    /\ last.tool = "update_workflow_blocks"
    /\ last.net.kind = "response"
    /\ last.net.response.status_code = 422
    /\ last.net.response.text = json_dumps([error |-> "bad field"])
    /\ last.outcome.kind = "raise"

\* C6: on a 2xx response whose body is a JSON document, _request returns that
\* document whole, top-level envelope included, and the tool returns to its
\* caller exactly what its client method returned; whatever a tool returns is
\* the whole document of the response body.
C6_SuccessBodyUnmodified ==
    Done =>
        /\ \A v \in JsonValues :
               (/\ last.net.kind = "response"
                /\ Is2xx(last.net.response.status_code)
                /\ last.net.response.text = json_dumps(v)) =>
                   /\ last.result = Return(v)
                   /\ last.outcome = Return(v)
        /\ last.result.kind = "return" =>
               /\ last.outcome = last.result
               /\ \E v \in JsonValues :
                      /\ last.net.response.text = json_dumps(v)
                      /\ last.result.value = v

\* C6 witness: get_workflow_config has returned the body of a 200 with its
\* `data` envelope.
C6_Witness ==
    /\ Done
    /\ last.tool = "get_workflow_config"
    /\ last.net.kind = "response"
    /\ last.net.response.status_code = 200
    /\ last.outcome = Return([data |-> [id |-> "wf_1", nodes |-> <<>>]])

\* The PATCH body of update_workflow_blocks(args[1], args[2]) is as documented.
UpdateBodyOk(args, call) ==
    /\ call.method = "PATCH"
    /\ DOMAIN call.kwargs = {"json"}
    /\ LET body == call.kwargs["json"]
           deleted == args[2]
           nonEmpty == deleted # None /\ deleted # Some(<<>>)
       IN  /\ DOMAIN body \subseteq {"blocks", "deleted_block_ids"}
           /\ "blocks" \in DOMAIN body
           /\ body["blocks"] = args[1]
           /\ ("deleted_block_ids" \in DOMAIN body) <=> nonEmpty
           /\ nonEmpty => body["deleted_block_ids"] = deleted[1]

\* C7: the body update_workflow_blocks sends always has the `blocks` key with
\* the given list, and has the `deleted_block_ids` key exactly when the
\* argument is a non-empty list, then with that list unchanged; for None and
\* for the empty list the key is absent.
C7_DeletedBlockIdsOnlyWhenNonEmpty ==
    /\ \A i \in InFlight :
           calls[i].tool = "update_workflow_blocks" =>
               UpdateBodyOk(calls[i].args, PendingCall(calls[i]))
    /\ (Done /\ last.tool = "update_workflow_blocks") =>
           UpdateBodyOk(last.args, last.call)

\* C7 witness: an update with the empty list of deletions is in flight, its
\* body holding the `blocks` key alone.
C7_Witness ==
    \E i \in InFlight :
        /\ calls[i].tool = "update_workflow_blocks"
        /\ calls[i].args[2] = Some(<<>>)
        /\ DOMAIN PendingCall(calls[i]).kwargs["json"] = {"blocks"}

DefaultHeaderNames == {"Authorization", "Content-Type", "API-Version"}

\* The headers of the call are the caller's, completed by the defaults.
HeadersOk(a, call) ==
    LET custom == IF "headers" \in DOMAIN a[4] THEN a[4]["headers"] ELSE NoKwargs
    IN  /\ DOMAIN call.headers = DefaultHeaderNames \cup DOMAIN custom
        /\ \A k \in DOMAIN custom : call.headers[k] = custom[k]
        /\ \A k \in DefaultHeaderNames \ DOMAIN custom :
               call.headers[k] =
                   CASE k = "Authorization" -> env["TRELLIS_API_KEY"][1]
                     [] k = "Content-Type"  -> "application/json"
                     [] k = "API-Version"   -> "2025-03"

\* C8: every request _request issues carries each of the three default headers
\* (Authorization: the API key as it is, Content-Type: application/json,
\* API-Version: the constant) unless the caller supplied a header of that name;
\* every header the caller supplied is in the request with the caller's value;
\* and there is no other header.
C8_HeadersMerged ==
    /\ \A i \in InFlight : HeadersOk(calls[i].args, PendingCall(calls[i]))
    /\ Done => HeadersOk(last.args, last.call)

\* C8 witness: a request is in flight whose caller overrode Authorization and
\* added a header of its own, API-Version being filled in by default.
C8_Witness ==
    \E i \in InFlight :
        /\ "headers" \in DOMAIN calls[i].args[4]
        /\ DOMAIN calls[i].args[4]["headers"] = {"Authorization", "X-Request-Id"}
        /\ PendingCall(calls[i]).headers["Authorization"] = "custom"
        /\ PendingCall(calls[i]).headers["X-Request-Id"] = "custom"
        /\ PendingCall(calls[i]).headers["API-Version"] = "2025-03"

\* The documented method and URL of a tool's request.
TargetOk(tool, args, call) ==
    LET base == "https://enterprise.training.api.runtrellis.com/v1"
        workflow == env["TRELLIS_WORKFLOW_ID"][1]
    IN  CASE tool = "get_transformations" ->
                 call.method = "GET" /\ call.url = base \o "/transforms"
          [] tool = "get_transformation_details" ->
                 /\ call.method = "GET"
                 /\ call.url = base \o "/transforms/" \o args[1] \o "/operations"
          [] tool = "get_entities" ->
                 call.method = "GET" /\ call.url = base \o "/entities"
          [] tool = "get_entity_fields" ->
                 /\ call.method = "GET"
                 /\ call.url = base \o "/entities/" \o args[1] \o "/fields"
          [] tool = "get_workflow_config" ->
                 /\ call.method = "GET"
                 /\ call.url = base \o "/workflows/" \o workflow \o "/config"
          [] tool = "update_workflow_blocks" ->
                 /\ call.method = "PATCH"
                 /\ call.url = base \o "/workflows/" \o workflow \o "/blocks"

\* C9: the request of every endpoint method has the documented HTTP method and
\* the URL that is the base URL followed by the documented path, in which
\* transform_id and entity_id are the argument as given and workflow_id is the
\* configured TRELLIS_WORKFLOW_ID.
C9_MethodAndUrl ==
    /\ \A i \in InFlight : TargetOk(calls[i].tool, calls[i].args, PendingCall(calls[i]))
    /\ Done => TargetOk(last.tool, last.args, last.call)

\* C9 witness: get_entity_fields("entity_42") is in flight to
\* /entities/entity_42/fields, and an update has gone to the configured workflow.
C9_Witness ==
    /\ \E i \in InFlight :
           /\ calls[i].tool = "get_entity_fields"
           /\ calls[i].args = <<"entity_42">>
           /\ PendingCall(calls[i]).url =
                  "https://enterprise.training.api.runtrellis.com/v1/entities/entity_42/fields"
    /\ Done
    /\ last.tool = "update_workflow_blocks"
    /\ env["TRELLIS_WORKFLOW_ID"] = Some("wf_2")
    /\ last.call.url =
           "https://enterprise.training.api.runtrellis.com/v1/workflows/wf_2/blocks"

\* The configuration server.py's client was constructed with.
Configuration ==
    [api_key     |-> env["TRELLIS_API_KEY"],
     workflow_id |-> env["TRELLIS_WORKFLOW_ID"],
     project_id  |-> env["TRELLIS_PROJECT_ID"]]

\* The request of a tool invocation is the one its own arguments and the
\* configuration determine: target, the three default headers, the default
\* timeout, and the query or body of its endpoint.
RequestOk(tool, args, call) ==
    /\ TargetOk(tool, args, call)
    /\ call.timeout = 30
    /\ call.headers = [k \in DefaultHeaderNames |->
                          CASE k = "Authorization" -> env["TRELLIS_API_KEY"][1]
                            [] k = "Content-Type"  -> "application/json"
                            [] k = "API-Version"   -> "2025-03"]
    /\ CASE tool = "get_transformations" ->
                call.kwargs = [params |-> [proj_ids |-> <<env["TRELLIS_PROJECT_ID"][1]>>,
                                           include_transform_params |-> TRUE]]
         [] tool = "get_entities" ->
                call.kwargs = [params |-> [project_id |-> env["TRELLIS_PROJECT_ID"][1]]]
         [] tool = "update_workflow_blocks" -> UpdateBodyOk(args, call)
         [] OTHER -> DOMAIN call.kwargs = {}

\* The invocations blocked in requests.request, whatever the number of slots.
Blocked == {i \in DOMAIN calls : calls[i].pc = "http"}

\* C11, the state part: while the server serves, with any number of
\* invocations in flight and after any of them has completed, the client holds
\* the configuration it was constructed with, and the request of every
\* invocation is the one its own arguments and that configuration determine.
C11_State ==
    /\ phase = "serving" => client = Some(Configuration)
    /\ \A i \in Blocked :
           /\ Cardinality(HttpCalls(calls[i].trace)) = 1
           /\ RequestOk(calls[i].tool, calls[i].args, PendingCall(calls[i]))
    /\ Done => RequestOk(last.tool, last.args, last.call)

\* C11: after construction no step, the start or the completion of any
\* invocation, successful or failed, in any interleaving, changes the client
\* configuration; and the request each invocation builds depends only on its
\* own arguments and that configuration.
C11_ConfigurationNeverChanges ==
    /\ []C11_State
    /\ [][phase = "serving" => client' = client]_vars

\* C11 witness: two updates with different deletions are in flight at once,
\* one with the key and one without, after an invocation that failed.
C11_Witness ==
    /\ Done
    /\ last.outcome.kind = "raise"
    /\ \E i, j \in Blocked :
           /\ i # j
           /\ calls[i].tool = "update_workflow_blocks"
           /\ calls[j].tool = "update_workflow_blocks"
           /\ calls[i].args[2] = None
           /\ calls[j].args[2] = Some(<<"a", "b">>)
           /\ DOMAIN PendingCall(calls[i]).kwargs["json"] = {"blocks"}
           /\ DOMAIN PendingCall(calls[j]).kwargs["json"] = {"blocks", "deleted_block_ids"}
    /\ client = Some(Configuration)

\* The place of the requests.request call in the trace of an invocation.
HttpAt(trace) == CHOOSE i \in DOMAIN trace : IsHttp(trace[i])

\* The error entries of a trace that reach the log file.
WrittenErrors(trace) == {i \in DOMAIN trace : IsWritten(trace[i]) /\ trace[i].level = "ERROR"}

\* The entry of _request's logger.error holds the context of the failure.
ErrorContextOk(msg, net) ==
    /\ (net.kind = "response" /\ IsHTTPErrorStatus(net.response.status_code)) =>
           /\ msg.text = "HTTP error: "
           /\ msg.exc.response[1].status_code = net.response.status_code
           /\ \A v \in JsonValues :
                  net.response.text = json_dumps(v) =>
                      msg.error_detail = [json |-> TRUE, body |-> v]
           /\ (\A v \in JsonValues : net.response.text # json_dumps(v)) =>
                  /\ msg.error_detail.json = FALSE
                  /\ Len(msg.error_detail.text) = Shown(net.response.text)
    /\ (net.kind = "raise" /\ net.type \in {"ReadTimeout", "ConnectTimeout"}) =>
           /\ msg.text = "Request timeout after "
           /\ msg.timeout = 30

\* C12 (as amended): a failed tool invocation logs its error twice: once in
\* _request where it is detected, after the HTTP call and with its context
\* (status and body for an HTTP error, the timeout for a timeout), before
\* _request re-raises it; and once more in the tool that catches it, as the
\* last thing before the tool re-raises it to its caller.  The request line is
\* handed to logger.debug right before the HTTP call and the response status to
\* logger.debug right after it, when there is a response; at the INFO level
\* server.py configures neither is written.  What is written before the call
\* is the INFO line of the tool and that of the client method, and after it the
\* two error entries, or the tool's success line alone.
C12_LoggingOrder ==
    (Done /\ last.tool \in Tools) =>
        LET t == last.trace
            h == HttpAt(t)
            errs == WrittenErrors(t)
        IN  /\ Cardinality(HttpCalls(t)) = 1
            \* before the call
            /\ h > 1
            /\ IsLog(t[h - 1]) /\ t[h - 1].level = "DEBUG" /\ ~IsWritten(t[h - 1])
            /\ t[h - 1].msg = [text |-> "", method |-> last.call.method, url |-> last.call.url]
            /\ IsWritten(t[1]) /\ t[1].logger = "trellis_mcp"
            /\ t[1].msg = [text |-> "Tool called: ", tool |-> last.tool, args |-> last.args]
            /\ IsWritten(t[2]) /\ t[2].logger = "trellis_mcp.client" /\ t[2].level = "INFO"
            /\ \A i \in 1..(h - 1) : IsLog(t[i]) /\ t[i].level # "ERROR"
            \* after the call
            /\ last.net.kind = "response" =>
                   /\ IsLog(t[h + 1]) /\ t[h + 1].level = "DEBUG" /\ ~IsWritten(t[h + 1])
                   /\ t[h + 1].msg = [text |-> "Response status: ",
                                      status_code |-> last.net.response.status_code]
            /\ \A i \in DOMAIN t :
                   (IsWritten(t[i]) /\ i > h) => "status_code" \notin DOMAIN t[i].msg
            /\ last.net.kind = "raise" =>
                   \A i \in DOMAIN t : IsLog(t[i]) => "status_code" \notin DOMAIN t[i].msg
            \* a failure
            /\ last.outcome.kind = "raise" =>
                   /\ Cardinality(errs) = 2
                   /\ \E e1, e2 \in errs :
                          /\ h < e1 /\ e1 < e2 /\ e2 = Len(t)
                          /\ t[e1].logger = "trellis_mcp.client"
                          /\ t[e1].msg.exc = last.outcome.exc
                          /\ ErrorContextOk(t[e1].msg, last.net)
                          /\ t[e2].logger = "trellis_mcp"
                          /\ t[e2].msg = [text |-> "Failed to ", tool |-> last.tool,
                                          exc |-> last.outcome.exc]
            \* a success
            /\ last.outcome.kind = "return" =>
                   /\ errs = {}
                   /\ IsWritten(t[Len(t)])
                   /\ t[Len(t)].msg = [text |-> "Successfully ", tool |-> last.tool]
                   /\ \A i \in (h + 1)..(Len(t) - 1) : ~IsWritten(t[i])

\* C12 witness: get_entities has failed with a 422 and a JSON error body, and
\* the log holds the two error entries, _request's before the tool's.
C12_Witness ==
    /\ Done
    /\ last.tool = "get_entities"
    /\ last.net.kind = "response"
    /\ last.net.response.status_code = 422
    /\ last.net.response.text = json_dumps([error |-> "bad field"])
    /\ last.outcome.kind = "raise"
    /\ Cardinality(WrittenErrors(last.trace)) = 2
    /\ last.trace[Len(last.trace) - 1].logger = "trellis_mcp.client"
    /\ last.trace[Len(last.trace)].logger = "trellis_mcp"

\* C12 as stated: a failed tool invocation has its error in the log once, the
\* entry being _request's, written after the HTTP call; and the log holds an
\* entry of the request attempt before the HTTP call and, after it, an entry of
\* its outcome: the status code, or the error.
C12_Original ==
    (Done /\ last.tool \in Tools) =>
        LET t == last.trace
            h == HttpAt(t)
            errs == WrittenErrors(t)
        IN  /\ last.outcome.kind = "raise" =>
                   /\ Cardinality(errs) = 1
                   /\ \A i \in errs : t[i].logger = "trellis_mcp.client" /\ i > h
            /\ \E i \in 1..(h - 1) : IsWritten(t[i]) /\ "url" \in DOMAIN t[i].msg
            /\ \E i \in (h + 1)..Len(t) :
                   /\ IsWritten(t[i])
                   /\ \/ "status_code" \in DOMAIN t[i].msg
                      \/ t[i].level = "ERROR"

====
